---- MODULE Spec2Model ----
(***************************************************************************)
(* A model of the OT-EVS training notebook                                 *)
(* (OT-EVS_Fashion_Experiments_Conventional_Measurements.ipynb):           *)
(*   - train: the loop of train_step calls (joint schedule), the shuffled  *)
(*     data loader, the periodic evaluation and the checkpoint selection;  *)
(*   - kld_estimator: the nearest-neighbour KL-divergence estimator;       *)
(*   - add_sampling_error: the Gaussian shot-noise model;                  *)
(*   - get_all_k_local_observables: the enumerator of Pauli strings.       *)
(*                                                                         *)
(* Numerical values are abstracted as follows.                             *)
(*   - A parameter group (or optimizer state) is the number of optimizer   *)
(*     steps applied to it: apply_updates / tx.update produce the next     *)
(*     value, and adam's state carries exactly that count.                 *)
(*   - A PRNG key is its path in the split tree: jax.random.split(k, n)[j] *)
(*     is Append(k, j).                                                    *)
(*   - A divergence score is an IEEE-754 double: a finite value (in        *)
(*     tenths), NaN, +inf or -inf, compared as floating point compares.    *)
(*   - A real batch is named by the data-loader pass and the slice of that *)
(*     pass's permutation it holds.                                        *)
(*   - A loss is finite or not (NaN, +inf, -inf).                          *)
(*   - The values of add_sampling_error are fixed-point numbers.           *)
(***************************************************************************)
EXTENDS Integers, Sequences, FiniteSets, TLC

\* ------------------------------------------------------------------ bounds
\* n_critic, eval_freq, dataset_size and n_shots range up to these, and
\* batch_size up to dataset_size + 1; n_iter is any of 0..ShortRun, or MaxIter,
\* and the run of MaxIter iterations is explored for one schedule and loader
\* configuration only (n_critic = 1, dataset_size = 2, batch_size = 1).  Shot
\* counts other than 1 and non-finite losses are explored in the runs of a
\* single iteration (n_iter = 0).
MaxNCritic == 2
MaxIter == 8
ShortRun == 3
MaxEvalFreq == 3
MaxData == 4
MaxShots == 1
\* The data loader on its own is resumed up to MaxFetch times.
MaxFetch == 20
\* The generator has MaxObs observables, so a batch draws MaxObs * batch_size
\* shot-noise values.
MaxObs == 1
\* kld_estimator: samples of up to MaxN (S1) and MaxM (S2) points, on the line
\* (d = 1), with coordinates in 0..MaxCoord.
MaxN == 3
MaxM == 3
MaxCoord == 2
\* add_sampling_error: exact expectation values on the grid of step 1 / Grid
\* in [-1, 1], shot counts 1..MaxNoiseShots, and Gaussian draws on the same
\* grid up to MaxSigma in absolute value.
Grid == 2
MaxNoiseShots == 3
MaxSigma == 3
\* get_all_k_local_observables: nq in 0..MaxQubits, k in -1..(nq + 1).
MaxQubits == 3

\* ------------------------------------------------------- program constants
\* The fixed checkpoint schedule of the train loop.
Milestones == {0, 1, 2, 5, 10, 20, 50, 100, 200, 500, 1000, 2000, 5000, 10000, 20000, 50000}

VARIABLES
    \* configuration (read-only after Init)
    n_critic, n_iter, eval_freq, dataset_size, batch_size, n_shots,
    \* train: loop position
    pc, i, c,
    \* PRNG keys
    key, subkey,
    \* history variables: the keys passed to jax.random.split so far, and the
    \* random draws made so far, each with the key that seeded it
    splits, draws,
    \* the three parameter groups and their optimizer states
    generator_quantum_params, generator_linear_params, critic_params,
    generator_quantum_opt_state, generator_linear_opt_state, critic_opt_state,
    \* locals of train_step
    real_batch, loss_critic, grads_linear, grads_quantum,
    \* the data loader generator and the jit cache of train_step
    loader, fetched, compiled, traced_batches,
    \* evaluation and checkpoint selection
    fake_imgs, kld, loss_history, best, best_i, files, returned,
    \* history variable: the retained / not retained record of a run of scored
    \* non-milestone iterations that follows ScenarioScores from the initial best
    scenario,
    \* kld_estimator
    s1, s2, estimate,
    \* add_sampling_error: exact (in 1 / Grid), n_shots, the value of
    \* jax.random.normal(key) (in 1 / Grid) and the returned value
    exact, shots, normal, noisy,
    \* get_all_k_local_observables: the arguments nq and k, the number of tuples
    \* of all_tuples consumed so far, the list being built, and the position
    nq, klocal, consumed, valid_tuples, obs_pc

cfgVars == <<n_critic, n_iter, eval_freq, dataset_size, batch_size, n_shots>>
keyVars == <<key, subkey>>
logVars == <<splits, draws>>
paramVars == <<generator_quantum_params, generator_linear_params, critic_params,
               generator_quantum_opt_state, generator_linear_opt_state, critic_opt_state>>
stepVars == <<real_batch, loss_critic, grads_linear, grads_quantum>>
loaderVars == <<loader, fetched, compiled, traced_batches>>
selVars == <<fake_imgs, kld, loss_history, best, best_i, files, returned, scenario>>
kldVars == <<s1, s2, estimate>>
noiseVars == <<exact, shots, normal, noisy>>
obsVars == <<nq, klocal, consumed, valid_tuples, obs_pc>>
pureVars == <<kldVars, noiseVars, obsVars>>
trainVars == <<cfgVars, pc, i, c, keyVars, logVars, paramVars, stepVars, loaderVars,
               selVars>>
vars == <<trainVars, pureVars>>

\* ------------------------------------------------------------ PRNG keys
\* jax.random.split(k, n)[j]
Split(k, j) == Append(k, j)

\* One random draw: the key that seeds it and the operation that makes it
\* (its site in the program, the loop indices i and c it runs at, and the
\* element j of a batched draw).
Draw(k, site, it, sub, j) == [key |-> k, site |-> site, i |-> it, c |-> sub, j |-> j]

\* `subkey` of the splits in train_step: z = jax.random.uniform(subkey, ...)
LatentKey(k) == Split(k, 1)

\* The gradient-penalty coefficients drawn with the key of the latent batch.
GpKeyShared(k) == Split(k, 1)

\* `subsubkey` of the critic loop's split in four: the `key` argument of
\* compute_grads_critic, epsilon = jax.random.uniform(key, ...)
GpKey(k) == Split(k, 2)

\* `subsubsubkey` of the critic loop, split into the shot-noise keys
CriticNoiseKey(k) == Split(k, 3)

\* `subsubkey` after the critic loop, split into the shot-noise keys
GeneratorNoiseKey(k) == Split(k, 2)

\* keys = jax.random.split(k, n_obs * batch_size): one key for each (batch
\* item, observable), each seeding one jax.random.normal in add_sampling_error
ShotNoiseDraws(k, site) ==
    {Draw(Split(k, j), site, i, c, j) : j \in 0..(MaxObs * batch_size - 1)}

\* ------------------------------------------------------------ float scores
Fin(v) == [t |-> "fin", v |-> v]
NaN == [t |-> "nan", v |-> 0]
PosInf == [t |-> "inf", v |-> 1]
NegInf == [t |-> "inf", v |-> -1]
FiniteScores == {Fin(40), Fin(49), Fin(50), Fin(60)}
Scores == FiniteScores \cup {NaN, PosInf, NegInf}

\* a < b on doubles: false when either side is NaN
Less(a, b) ==
    IF a.t = "nan" \/ b.t = "nan" THEN FALSE
    ELSE IF a = b THEN FALSE
    ELSE IF a = NegInf \/ b = PosInf THEN TRUE
    ELSE IF a = PosInf \/ b = NegInf THEN FALSE
    ELSE a.v < b.v

\* ------------------------------------------------------------ kld_estimator
\* Euclidean distance of two points of the line: np.sqrt of the squared L2
\* distance IndexFlatL2.search returns.
Dist(a, b) == IF a >= b THEN a - b ELSE b - a

RECURSIVE InsertSorted(_, _)
InsertSorted(x, a) ==
    IF a = <<>> THEN <<x>>
    ELSE IF x <= Head(a) THEN <<x>> \o a
    ELSE <<Head(a)>> \o InsertSorted(x, Tail(a))

RECURSIVE SortAscending(_)
SortAscending(a) ==
    IF a = <<>> THEN <<>> ELSE InsertSorted(Head(a), SortAscending(Tail(a)))

\* One row of np.sqrt(index.search(s1, k)[0]) with k = len(sample): the
\* distances of query q to every point of the indexed sample, ascending.
FullDistRow(q, sample) ==
    SortAscending([j \in 1..Len(sample) |-> Dist(q, sample[j])])

\* np.searchsorted(a, v, side='left'): the first index (0-based) whose
\* element is not below v.
RECURSIVE SearchSortedLeft(_, _, _, _)
SearchSortedLeft(a, v, lo, hi) ==
    IF lo >= hi THEN lo
    ELSE LET mid == lo + (hi - lo) \div 2
         IN  IF a[mid + 1] < v
             THEN SearchSortedLeft(a, v, mid + 1, hi)
             ELSE SearchSortedLeft(a, v, lo, mid)

\* np.searchsorted(a, v, side='right'): binary search for the first index
\* (0-based) whose element exceeds v.
RECURSIVE SearchSortedRight(_, _, _, _)
SearchSortedRight(a, v, lo, hi) ==
    IF lo >= hi THEN lo
    ELSE LET mid == lo + (hi - lo) \div 2
         IN  IF a[mid + 1] <= v
             THEN SearchSortedRight(a, v, mid + 1, hi)
             ELSE SearchSortedRight(a, v, lo, mid)

Raised(err) == [outcome |-> err, li |-> <<>>, ki |-> <<>>, terms |-> <<>>, m |-> 0, n1 |-> 0]
Pending == Raised("pending")

\* The distance of a point to itself taken for its nearest-neighbour distance
\* (column 0 of the sorted row).
RhoSelf(row) == row[1]

\* rhoi = fulldist1[::,1]: the second smallest entry of a sorted row of
\* distances within S1, the smallest being the point's distance to itself.
Rho(row) == row[2]

\* kld_estimator(s1, s2).  The value returned is kept unevaluated: terms[j] is
\* the pair <<l, k>> of the j-th summand digamma(l) - digamma(k) of the mean,
\* and m, n1 the arguments of log(m / (n - 1)).
KldEstimator(S1, S2) ==
    LET n == Len(S1)
        m == Len(S2)
        fulldist1 == [r \in 1..n |-> FullDistRow(S1[r], S1)]
        fulldist2 == [r \in 1..n |-> FullDistRow(S1[r], S2)]
    IN  IF n < 2 THEN Raised("IndexError")       \* fulldist1[::,1]
        ELSE
        LET rhoi == [r \in 1..n |-> Rho(fulldist1[r])]
            nui == [r \in 1..n |-> fulldist2[r][1]]
            epsilon == [r \in 1..n |-> IF rhoi[r] >= nui[r] THEN rhoi[r] ELSE nui[r]]
        IN  IF m > n THEN Raised("IndexError")   \* fulldist1[i], i in range(m)
            ELSE
            LET li == [r \in 1..m |-> SearchSortedRight(fulldist1[r], epsilon[r], 0, n) - 1]
                ki == [r \in 1..n |-> SearchSortedRight(fulldist2[r], epsilon[r], 0, m)]
            IN  IF m = n
                THEN [outcome |-> "ok", li |-> li, ki |-> ki,
                      terms |-> [r \in 1..n |-> <<li[r], ki[r]>>],
                      m |-> m, n1 |-> n - 1]
                ELSE IF m = 1                    \* shapes (1,) and (n,) broadcast
                THEN [outcome |-> "ok", li |-> li, ki |-> ki,
                      terms |-> [r \in 1..n |-> <<li[1], ki[r]>>],
                      m |-> m, n1 |-> n - 1]
                ELSE Raised("ValueError")        \* shapes (m,) and (n,)

\* ---------------------------------------------- get_all_k_local_observables
RECURSIVE Pow(_, _)
Pow(b, e) == IF e = 0 THEN 1 ELSE b * Pow(b, e - 1)

\* The p-th tuple (from 0) of itertools.product([0, 1, 2, 3], repeat=n), which
\* runs in lexicographic order with the last position varying fastest.
TupleAt(p, n) == [j \in 1..n |-> (p \div Pow(4, n - j)) % 4]

\* sum(1 for x in t if x == 0)
Zeros(t) == Cardinality({j \in DOMAIN t : t[j] = 0})

\* A filter that lets the all-identity tuple through (`<=` for `<`).
IsValidTupleOrIdentity(t, n, loc) == Zeros(t) >= n - loc /\ Zeros(t) <= n

\* the condition of the list comprehension
IsValidTuple(t, n, loc) == Zeros(t) >= n - loc /\ Zeros(t) < n

\* ------------------------------------------------------- add_sampling_error
\* Values are fixed-point numbers: 1.0 is One, and every operation rounds
\* down to the grid as floating point rounds to its own.
One == 2 * Grid * Grid

\* jnp.clip(x, lo, hi)
Clip(x, lo, hi) == IF x < lo THEN lo ELSE IF x > hi THEN hi ELSE x

\* jnp.sqrt, rounded down
ISqrt(v) == CHOOSE r \in 0..v : r * r <= v /\ v < (r + 1) * (r + 1)

\* The floor 1e-16 of the variance, which lies below the resolution of the
\* grid: jnp.clip(v, min=1e-16) is v for every positive v of the grid.
VarianceFloor == 0

\* A clip of the normalised sample that has a lower limit only.
ClipSampleFromBelow(x) == IF x < 0 THEN 0 ELSE x

\* jnp.clip(sample / n_shots, 0, 1)
ClipSample(x) == Clip(x, 0, One)

\* add_sampling_error(exact, n_shots, key), with e = exact / Grid and
\* g = jax.random.normal(key) = normal / Grid:
\*   p    = clip((1 - e) / 2, 0, 1)          = p2g / (2 * Grid)
\*   mean = n * p                            = n * p2g / (2 * Grid)
\*   std  = sqrt(clip(n * p * (1 - p), min)) = std2g / (2 * Grid)
\*   g * std + mean                          = sample / One
AddSamplingError(e, n, g) ==
    LET p2g == Clip(Grid - e, 0, 2 * Grid)
        variance == n * p2g * (2 * Grid - p2g)
        std2g == ISqrt(IF variance < VarianceFloor THEN VarianceFloor ELSE variance)
        sample == g * std2g + n * p2g * Grid
    IN  One - 2 * ClipSample(sample \div n)

\* -------------------------------------------------------------- data loader
\* The dataloader generator, not yet started: key is key_loader.
LoaderInit(k) == [key |-> k, perm |-> <<>>, start |-> 0, end |-> 0, closed |-> FALSE]

\* A new pass of the outer `while True`: split the key, draw a permutation
\* (named by the subkey that seeds it), start = 0, end = batch_size.
NewPass(ld) ==
    [key |-> Split(ld.key, 0), perm |-> Split(ld.key, 1),
     start |-> 0, end |-> batch_size, closed |-> ld.closed]

\* An inner loop that also yields the batch ending at dataset_size
\* (`while end <= dataset_size`).
StartsPassAfterLast(ld) == ld.perm = <<>> \/ ld.end + batch_size > dataset_size

\* Whether the generator, resumed, goes round the outer loop: it has not
\* started yet, or the test `end < dataset_size` fails after the advance.
StartsPass(ld) == ld.perm = <<>> \/ ld.end + batch_size >= dataset_size

\* The inner test `while end < dataset_size` at the top of a pass, where
\* end = batch_size: whether a pass yields any batch at all.
PassYields == batch_size < dataset_size

\* Resuming the generator after a yield (or starting it), when a pass yields:
\* start = end, end = start + batch_size, then the test `end < dataset_size`;
\* a failed test begins a new pass, which yields its first batch.
LoaderResume(ld) ==
    IF StartsPass(ld) THEN NewPass(ld)
    ELSE [ld EXCEPT !.start = ld.end, !.end = ld.end + batch_size]

\* The batch the generator is suspended on: data[perm[start:end]].
LoaderBatch(ld) == [perm |-> ld.perm, start |-> ld.start, end |-> ld.end]

NoBatch == [perm |-> <<>>, start |-> 0, end |-> 0]

\* --------------------------------------------------------------- train_step
\* A critic loop that runs once too often.
CriticIterationsOffByOne == n_critic + 1

\* range(config.n_critic) of the critic loop
CriticIterations == n_critic

\* The real batch of critic sub-step c (0-based).  train_step is wrapped in
\* eqx.filter_jit: its Python body, the zip over infinite_trainloader()
\* included, runs only while the function is traced, on the first call; the
\* batches pulled then are part of the compiled computation that every later
\* call re-executes.
RealBatchOf(k) ==
    IF compiled THEN traced_batches[k + 1] ELSE LoaderBatch(LoaderResume(loader))

\* Arguments of compute_grads_generator_linear(generator_linear_params,
\* generator_quantum_params, critic_params, z, keys)
GradsLinearArgs(z, keys) ==
    [linear |-> generator_linear_params, quantum |-> generator_quantum_params,
     critic |-> critic_params, z |-> z, keys |-> keys]

\* The quantum gradient taken against the linear readout as it is after its
\* update (the order of the notebook's disabled asynchronous schedule).
GradsQuantumArgsAfterLinear(z, keys) ==
    [linear |-> generator_linear_params + 1, quantum |-> generator_quantum_params,
     critic |-> critic_params, z |-> z, keys |-> keys]

\* Arguments of compute_grads_generator_quantum(generator_quantum_params,
\* generator_linear_params, critic_params, z, keys)
GradsQuantumArgs(z, keys) ==
    [linear |-> generator_linear_params, quantum |-> generator_quantum_params,
     critic |-> critic_params, z |-> z, keys |-> keys]

NoGrads == [linear |-> -1, quantum |-> -1, critic |-> -1, z |-> <<>>, keys |-> <<>>]

\* for i in range(config.n_iter + 1): key, subkey, subsubkey = split(key, 3);
\* train_step(..., key) is entered.
LoopHead ==
    /\ pc = "loop"
    /\ i <= n_iter
    /\ key' = Split(key, 0)
    /\ subkey' = Split(key, 1)
    /\ splits' = splits \cup {key}
    /\ c' = 0
    /\ pc' = "critic"
    /\ UNCHANGED <<cfgVars, i, draws, paramVars, stepVars, loaderVars, selVars, pureVars>>

\* The critic sub-step of the notebook's disabled decoupled schedule, which
\* also updates the linear readout inside the critic loop.
CriticUpdateDecoupled ==
    /\ critic_opt_state' = critic_opt_state + 1
    /\ critic_params' = critic_params + 1
    /\ generator_linear_opt_state' = generator_linear_opt_state + 1
    /\ generator_linear_params' = generator_linear_params + 1
    /\ UNCHANGED <<generator_quantum_params, generator_quantum_opt_state>>

\* updates, critic_opt_state = tx_c.update(grads, critic_opt_state);
\* critic_params = eqx.apply_updates(critic_params, updates): the only
\* assignments to a parameter group or optimizer state in the critic loop.
CriticUpdate ==
    /\ critic_opt_state' = critic_opt_state + 1
    /\ critic_params' = critic_params + 1
    /\ UNCHANGED <<generator_quantum_params, generator_linear_params,
                   generator_quantum_opt_state, generator_linear_opt_state>>

\* loss_critic as compute_grads_critic returns it: a finite number, or NaN /
\* +-inf ("nonfinite").  A non-finite loss has non-finite gradients, the adam
\* step then makes the critic's parameters non-finite, and every later critic
\* loss is non-finite too.  (Non-finite losses are explored in the runs of a
\* single iteration.)
LossAfter(prev) ==
    IF prev = "nonfinite" THEN {"nonfinite"}
    ELSE IF n_iter = 0 THEN {"finite", "nonfinite"}
    ELSE {"finite"}

\* next(infinite_trainloader()) while train_step is traced, for a batch_size
\* that no pass can serve: the dataloader splits its key, draws a permutation,
\* fails the test `end < dataset_size` and goes round its `while True` again
\* without a yield.  Every later pass fails the same test, so the call never
\* returns: pc = "spin" stands for that endless loop and has no successor.
LoaderSpin ==
    /\ pc = "critic"
    /\ c < CriticIterations
    /\ ~ compiled
    /\ ~ PassYields
    /\ loader' = NewPass(loader)
    /\ splits' = splits \cup {loader.key}
    /\ draws' = draws \cup {Draw(NewPass(loader).perm, "permutation", i, c, 0)}
    /\ pc' = "spin"
    /\ UNCHANGED <<cfgVars, i, c, keyVars, paramVars, stepVars, fetched, compiled,
                   traced_batches, selVars, pureVars>>

\* One pass of the critic loop: a real batch, a key split in four, a latent
\* batch, shot-noise keys, the critic gradient and one adam step on the critic.
CriticSubStep ==
    /\ pc = "critic"
    /\ c < CriticIterations
    /\ compiled \/ PassYields
    /\ real_batch' = RealBatchOf(c)
    /\ loss_critic' \in LossAfter(loss_critic)
    /\ IF compiled
       THEN UNCHANGED <<loader, fetched, traced_batches>>
       ELSE /\ loader' = LoaderResume(loader)
            /\ fetched' = fetched + 1
            /\ traced_batches' = Append(traced_batches, RealBatchOf(c))
    /\ key' = Split(key, 0)
    /\ splits' = splits \cup {key, CriticNoiseKey(key)}
                     \cup (IF ~ compiled /\ StartsPass(loader) THEN {loader.key} ELSE {})
    /\ draws' = draws \cup {Draw(LatentKey(key), "z_critic", i, c, 0),
                             Draw(GpKey(key), "gp_epsilon", i, c, 0)}
                     \cup ShotNoiseDraws(CriticNoiseKey(key), "shot_critic")
                     \cup (IF ~ compiled /\ StartsPass(loader)
                           THEN {Draw(NewPass(loader).perm, "permutation", i, c, 0)}
                           ELSE {})
    /\ CriticUpdate
    /\ c' = c + 1
    /\ UNCHANGED <<cfgVars, pc, i, subkey, grads_linear, grads_quantum,
                   compiled, selVars, pureVars>>

\* After the critic loop: key, subkey, subsubkey = split(key, 3); z from
\* subkey, keys from subsubkey; both generator gradients.  The zip object
\* and with it the infinite_trainloader() generator are dropped here; closing
\* a generator suspended in `yield from` closes the delegated dataloader.
GeneratorGrads ==
    /\ pc = "critic"
    /\ c >= CriticIterations
    /\ key' = Split(key, 0)
    /\ splits' = splits \cup {key, GeneratorNoiseKey(key)}
    /\ draws' = draws \cup {Draw(LatentKey(key), "z_generator", i, c, 0)}
                     \cup ShotNoiseDraws(GeneratorNoiseKey(key), "shot_generator")
    /\ grads_linear' = GradsLinearArgs(LatentKey(key), GeneratorNoiseKey(key))
    /\ grads_quantum' = GradsQuantumArgs(LatentKey(key), GeneratorNoiseKey(key))
    /\ loader' = IF compiled THEN loader ELSE [loader EXCEPT !.closed = TRUE]
    /\ pc' = "upd_linear"
    /\ UNCHANGED <<cfgVars, i, c, subkey, paramVars, real_batch, loss_critic, fetched,
                   compiled, traced_batches, selVars, pureVars>>

\* tx_gl.update(grads_linear, ...); apply_updates(generator_linear_params, ...)
UpdateLinear ==
    /\ pc = "upd_linear"
    /\ generator_linear_opt_state' = generator_linear_opt_state + 1
    /\ generator_linear_params' = generator_linear_params + 1
    /\ pc' = "upd_quantum"
    /\ UNCHANGED <<cfgVars, i, c, keyVars, logVars, generator_quantum_params, critic_params,
                   generator_quantum_opt_state, critic_opt_state, stepVars,
                   loaderVars, selVars, pureVars>>

\* tx_gq.update(grads_quantum, ...); apply_updates(generator_quantum_params, ...);
\* train_step returns, and its trace is now cached.
UpdateQuantum ==
    /\ pc = "upd_quantum"
    /\ generator_quantum_opt_state' = generator_quantum_opt_state + 1
    /\ generator_quantum_params' = generator_quantum_params + 1
    /\ compiled' = TRUE
    /\ pc' = "eval"
    /\ UNCHANGED <<cfgVars, i, c, keyVars, logVars, generator_linear_params, critic_params,
                   generator_linear_opt_state, critic_opt_state, stepVars,
                   loader, fetched, traced_batches, selVars, pureVars>>

\* ----------------------------------------------- evaluation and checkpoints
\* `if i % config.eval_freq == 0`
EvalDue(it) == it % eval_freq = 0

\* A milestone schedule that begins after iteration 0.
IsMilestoneAfterStart(it) == it \in Milestones /\ it > 0

\* A milestone checkpoint that is skipped unless the score improves.
IsMilestoneIfImproving(it) == it \in Milestones /\ Less(kld, best)

\* `if i in [0,1,2,5,10,...]`
IsMilestone(it) == it \in Milestones

\* A comparison that also accepts a tie (`<=` for `<`).
ImprovesOrTies(score, bst) == Less(score, bst) \/ (score = bst /\ score.t # "nan")

\* `elif kld < best`
Improves(score, bst) == Less(score, bst)

\* The snapshot tree_serialise_leaves writes for tag it.
Snapshot == [quantum |-> generator_quantum_params, linear |-> generator_linear_params]

Written(it) == [t \in DOMAIN files \cup {it} |-> IF t = it THEN Snapshot ELSE files[t]]

\* The evaluation block of the loop body: evaluate_fake on the current
\* generator with the iteration's subkey, kld_estimator on the result, and
\* the append to loss_history (kept as the set of scores appended).
Evaluate ==
    /\ pc = "eval"
    /\ IF EvalDue(i)
       THEN \E score \in Scores :
              /\ fake_imgs' = [quantum |-> generator_quantum_params,
                               linear |-> generator_linear_params, key |-> subkey]
              /\ draws' = draws \cup {Draw(subkey, "z_evaluate", i, 0, 0)}
              /\ kld' = score
              /\ loss_history' = loss_history \cup {score}
       ELSE UNCHANGED <<fake_imgs, draws, kld, loss_history>>
    /\ pc' = "ckpt"
    /\ UNCHANGED <<cfgVars, i, c, keyVars, splits, paramVars, stepVars, loaderVars,
                   best, best_i, files, returned, scenario, pureVars>>

\* Score sequence [5.0, 5.0, 4.9, 6.0, 4.0] and the indices it is to retain.
ScenarioScores == <<Fin(50), Fin(50), Fin(49), Fin(60), Fin(40)>>
ScenarioRetained == <<TRUE, FALSE, TRUE, FALSE, TRUE>>

\* The history variable after the checkpoint decision of iteration i: a
\* milestone iteration is not part of the run; a non-milestone iteration
\* extends the record when its new score is the next one of ScenarioScores.
Observe(retained) ==
    IF IsMilestone(i) THEN scenario
    ELSE IF /\ EvalDue(i)
            /\ Len(scenario) < Len(ScenarioScores)
            /\ scenario # <<>> \/ best = PosInf
            /\ kld = ScenarioScores[Len(scenario) + 1]
         THEN Append(scenario, retained)
         ELSE <<>>

\* The if / elif that ends the loop body, and the step to the next index.
Checkpoint ==
    /\ pc = "ckpt"
    /\ IF IsMilestone(i)
       THEN /\ files' = Written(i)
            /\ UNCHANGED <<best, best_i>>
       ELSE IF Improves(kld, best)
            THEN /\ files' = Written(i)
                 /\ best' = kld
                 /\ best_i' = i
            ELSE UNCHANGED <<files, best, best_i>>
    /\ scenario' = Observe(i \in DOMAIN files')
    /\ i' = i + 1
    /\ pc' = "loop"
    /\ UNCHANGED <<cfgVars, c, keyVars, logVars, paramVars, stepVars, loaderVars,
                   fake_imgs, kld, loss_history, returned, pureVars>>

\* After the loop: tree_deserialise_leaves of the files tagged best_i, which
\* raises (FileNotFoundError) when they were never written.
Finish ==
    /\ pc = "loop"
    /\ i > n_iter
    /\ IF best_i \in DOMAIN files
       THEN returned' = files[best_i] /\ pc' = "done"
       ELSE returned' = returned /\ pc' = "raised"
    /\ UNCHANGED <<cfgVars, i, c, keyVars, logVars, paramVars, stepVars, loaderVars,
                   fake_imgs, kld, loss_history, best, best_i, files, scenario,
                   pureVars>>

NoSnapshot == [quantum |-> -1, linear |-> -1]

\* train(config, training_data_path, seed_initial) up to the loop:
\* key = PRNGKey(seed); key, key_gq, key_gl, key_c, key_loader = split(key, 5).
\* key_gq seeds theta, key_gl the linear readout, key_c is split in four by
\* Critic.__init__, one key for each of its layers.
\* No statement between the entry of train and its loop reads batch_size,
\* dataset_size or n_shots to reject a configuration.  loss_critic is unbound
\* until the first critic sub-step.
\* fake_imgs and kld are unbound until the evaluation of i = 0, which always
\* runs (0 % eval_freq = 0); the values given here are never read.
TrainInit ==
    /\ n_critic \in 1..MaxNCritic
    /\ n_iter \in (0..ShortRun) \cup {MaxIter}
    /\ eval_freq \in 1..MaxEvalFreq
    /\ dataset_size \in 2..MaxData
    /\ batch_size \in 1..(dataset_size + 1)
    /\ n_shots \in 0..MaxShots
    /\ n_iter > ShortRun => (n_critic = 1 /\ dataset_size = 2 /\ batch_size = 1)
    /\ n_iter > 0 => n_shots = 1
    /\ pc = "loop"
    /\ i = 0
    /\ c = 0
    /\ key = Split(<<>>, 0)
    /\ subkey = <<>>
    /\ splits = {<<>>, Split(<<>>, 3)}
    /\ draws = {Draw(Split(<<>>, 1), "theta", 0, 0, 0),
                Draw(Split(<<>>, 2), "generator_linear", 0, 0, 0)}
               \cup {Draw(Split(Split(<<>>, 3), j), "critic_layer", 0, 0, j) : j \in 0..3}
    /\ generator_quantum_params = 0
    /\ generator_linear_params = 0
    /\ critic_params = 0
    /\ generator_quantum_opt_state = 0
    /\ generator_linear_opt_state = 0
    /\ critic_opt_state = 0
    /\ real_batch = NoBatch
    /\ loss_critic = "finite"
    /\ grads_linear = NoGrads
    /\ grads_quantum = NoGrads
    /\ loader = LoaderInit(Split(<<>>, 4))
    /\ fetched = 0
    /\ compiled = FALSE
    /\ traced_batches = <<>>
    /\ fake_imgs = [quantum |-> -1, linear |-> -1, key |-> <<>>]
    /\ kld = NaN
    /\ loss_history = {}
    /\ best = PosInf
    /\ best_i = 0
    /\ files = <<>>
    /\ returned = NoSnapshot
    /\ scenario = <<>>

KldIdle ==
    /\ s1 = <<>>
    /\ s2 = <<>>
    /\ estimate = Pending

NoiseIdle ==
    /\ exact = 0
    /\ shots = 1
    /\ normal = 0
    /\ noisy = <<>>

ObsIdle ==
    /\ nq = 0
    /\ klocal = 0
    /\ consumed = 0
    /\ valid_tuples = <<>>
    /\ obs_pc = "idle"

Init == TrainInit /\ KldIdle /\ NoiseIdle /\ ObsIdle

Next ==
    \/ LoopHead
    \/ CriticSubStep
    \/ LoaderSpin
    \/ GeneratorGrads
    \/ UpdateLinear
    \/ UpdateQuantum
    \/ Evaluate
    \/ Checkpoint
    \/ Finish

Spec == Init /\ [][Next]_vars

\* ------------------------------------------- kld_estimator as a specification
Samples(maxlen) == UNION {[1..k -> 0..MaxCoord] : k \in 1..maxlen}

\* One call kld_estimator(s1, s2).
CallKldEstimator ==
    /\ estimate = Pending
    /\ estimate' = KldEstimator(s1, s2)
    /\ UNCHANGED <<s1, s2, trainVars, noiseVars, obsVars>>

TrainIdle ==
    /\ TrainInit
    /\ n_critic = 1 /\ n_iter = 0 /\ eval_freq = 1
    /\ dataset_size = 2 /\ batch_size = 1 /\ n_shots = 1

InitKld ==
    /\ TrainIdle
    /\ s1 \in Samples(MaxN)
    /\ s2 \in Samples(MaxM)
    /\ estimate = Pending
    /\ NoiseIdle
    /\ ObsIdle

NextKld == CallKldEstimator

SpecKld == InitKld /\ [][NextKld]_vars

\* -------------------------------------- add_sampling_error as a specification
\* One call add_sampling_error(exact, n_shots, key).
CallAddSamplingError ==
    /\ noisy = <<>>
    /\ noisy' = <<AddSamplingError(exact, shots, normal)>>
    /\ UNCHANGED <<exact, shots, normal, trainVars, kldVars, obsVars>>

InitNoise ==
    /\ TrainIdle
    /\ KldIdle
    /\ exact \in (-Grid)..Grid
    /\ shots \in 1..MaxNoiseShots
    /\ normal \in (-(MaxSigma * Grid))..(MaxSigma * Grid)
    /\ noisy = <<>>
    /\ ObsIdle

NextNoise == CallAddSamplingError

SpecNoise == InitNoise /\ [][NextNoise]_vars

\* ----------------------------- get_all_k_local_observables as a specification
\* One iteration of the list comprehension over all_tuples.
FilterTuple ==
    /\ obs_pc = "filter"
    /\ consumed < Pow(4, nq)
    /\ valid_tuples' = IF IsValidTuple(TupleAt(consumed, nq), nq, klocal)
                       THEN Append(valid_tuples, TupleAt(consumed, nq))
                       ELSE valid_tuples
    /\ consumed' = consumed + 1
    /\ UNCHANGED <<nq, klocal, obs_pc, trainVars, kldVars, noiseVars>>

\* all_tuples is exhausted: return jnp.array(valid_tuples)
ReturnObservables ==
    /\ obs_pc = "filter"
    /\ consumed = Pow(4, nq)
    /\ obs_pc' = "returned"
    /\ UNCHANGED <<nq, klocal, consumed, valid_tuples, trainVars, kldVars, noiseVars>>

\* A call get_all_k_local_observables(nq, k); no statement of the function
\* tests k against 0 or nq.
InitObs ==
    /\ TrainIdle
    /\ KldIdle
    /\ NoiseIdle
    /\ nq \in 0..MaxQubits
    /\ klocal \in (-1)..(nq + 1)
    /\ consumed = 0
    /\ valid_tuples = <<>>
    /\ obs_pc = "filter"

NextObs ==
    \/ FilterTuple
    \/ ReturnObservables

SpecObs == InitObs /\ [][NextObs]_vars

\* --------------------------------------------- dataloader as a specification
\* next() on the dataloader generator.
NextBatch ==
    /\ fetched < MaxFetch
    /\ PassYields
    /\ loader' = LoaderResume(loader)
    /\ real_batch' = LoaderBatch(LoaderResume(loader))
    /\ fetched' = fetched + 1
    /\ splits' = splits \cup (IF StartsPass(loader) THEN {loader.key} ELSE {})
    /\ draws' = draws \cup (IF StartsPass(loader)
                            THEN {Draw(NewPass(loader).perm, "permutation", 0, fetched, 0)}
                            ELSE {})
    /\ UNCHANGED <<cfgVars, pc, i, c, keyVars, paramVars, loss_critic, grads_linear,
                   grads_quantum, compiled, traced_batches, selVars, pureVars>>

\* dataloader(data, batch_size, key=key_loader) over a dataset of dataset_size
\* items, with batch_size < dataset_size.
InitLoader ==
    /\ TrainInit
    /\ n_critic = 1 /\ n_iter = 0 /\ eval_freq = 1 /\ n_shots = 1
    /\ batch_size < dataset_size
    /\ KldIdle
    /\ NoiseIdle
    /\ ObsIdle

NextLoader == NextBatch

SpecLoader == InitLoader /\ [][NextLoader]_vars

\* =================================================================== claims

\* C1: in every training step the critic receives exactly n_critic optimizer
\* steps, all before the generator phase, and then the linear-readout group
\* and the quantum group one step each: after T completed steps the counts
\* are n_critic * T, T and T.
C1_UpdateRatio ==
    /\ pc \in {"loop", "done"} =>
          /\ critic_opt_state = n_critic * i
          /\ generator_linear_opt_state = i
          /\ generator_quantum_opt_state = i
    /\ pc = "critic" =>
          /\ c <= n_critic
          /\ critic_opt_state = n_critic * i + c
          /\ generator_linear_opt_state = i
          /\ generator_quantum_opt_state = i
    /\ pc = "upd_linear" =>
          /\ critic_opt_state = n_critic * (i + 1)
          /\ generator_linear_opt_state = i
          /\ generator_quantum_opt_state = i
    /\ pc = "upd_quantum" =>
          /\ critic_opt_state = n_critic * (i + 1)
          /\ generator_linear_opt_state = i + 1
          /\ generator_quantum_opt_state = i
    /\ pc \in {"eval", "ckpt"} =>
          /\ critic_opt_state = n_critic * (i + 1)
          /\ generator_linear_opt_state = i + 1
          /\ generator_quantum_opt_state = i + 1

C1_Witness ==
    /\ pc = "loop" /\ i = 3 /\ n_critic = 2
    /\ critic_opt_state = 6 /\ generator_quantum_opt_state = 3

\* C2: both generator gradients of a step are computed from the same latent
\* batch, the same shot-noise keys, the critic as the critic phase left it and
\* the values both generator groups had before either was updated.
C2_SameSnapshot ==
    pc \in {"upd_linear", "upd_quantum", "eval", "ckpt"} =>
        /\ grads_linear = grads_quantum
        /\ grads_quantum.critic = n_critic * (i + 1)
        /\ grads_quantum.critic = critic_params
        /\ grads_quantum.linear = i
        /\ grads_quantum.quantum = i
        /\ grads_linear.z # grads_linear.keys

C2_Witness ==
    /\ pc = "upd_quantum" /\ i = 1
    /\ generator_linear_params = 2
    /\ grads_quantum.linear = 1 /\ grads_linear.quantum = 1

\* C3: each critic sub-step of every training step consumes a fresh batch of
\* the loader, which so advances by n_critic batches per training step.
C3_FreshRealBatches ==
    /\ pc = "critic" => fetched = n_critic * i + c
    /\ pc = "critic" /\ c > 0 => real_batch = LoaderBatch(loader)

\* C4: outside the milestone schedule a checkpoint is written, and best and
\* best_i replaced, only at an iteration that computed a new score, that score
\* being smaller than the best so far (stated for finite scores).
C4_OnlyNewScores ==
    [][(pc = "ckpt" /\ ~ (i \in Milestones) /\ kld \in FiniteScores
          /\ (files' # files \/ best' # best \/ best_i' # best_i))
        => (i % eval_freq = 0 /\ Less(kld, best))]_vars

\* C5: when training ends, best is the lowest score computed at any
\* evaluation and best_i an iteration at which it was computed (stated for
\* runs whose scores are all finite).
C5_BestIsLowest ==
    (pc = "done" /\ loss_history \subseteq FiniteScores) =>
        /\ best \in loss_history
        /\ \A score \in loss_history : ~ Less(score, best)
        /\ best_i % eval_freq = 0

\* C6: at a non-milestone iteration with a newly computed score a checkpoint
\* is retained exactly when the score is strictly below the best so far (a
\* tie retains nothing); the scores 5.0, 5.0, 4.9, 6.0, 4.0 retain indices 0,
\* 2 and 4 only.
C6_StrictImprovement ==
    /\ [][(pc = "ckpt" /\ ~ (i \in Milestones) /\ i % eval_freq = 0) =>
            /\ (i \in DOMAIN files') <=> Less(kld, best)
            /\ Less(kld, best) => (best' = kld /\ best_i' = i)
            /\ ~ Less(kld, best) => (best' = best /\ best_i' = best_i /\ files' = files)
            /\ kld = best => files' = files]_vars
    /\ [](\A k \in 1..Len(scenario) : scenario[k] = ScenarioRetained[k])

C6_Witness ==
    /\ scenario = ScenarioRetained
    /\ DOMAIN files \ Milestones = {3, 6, 8}
    /\ best = Fin(40) /\ best_i = 8

\* C7: every iteration of the milestone schedule the run has completed has a
\* checkpoint of both generator groups under its index, whatever the scores.
C7_MilestonesSaved ==
    \A t \in Milestones :
        (t < i /\ t <= n_iter) =>
            /\ t \in DOMAIN files
            /\ files[t] = [quantum |-> t + 1, linear |-> t + 1]

C7_Witness ==
    /\ pc = "loop" /\ i = 6 /\ eval_freq = 1
    /\ kld = NaN /\ best = Fin(40)
    /\ 5 \in DOMAIN files

NearestOther(r) ==
    CHOOSE d \in {Dist(s1[r], s1[j]) : j \in (1..Len(s1)) \ {r}} :
        \A j \in (1..Len(s1)) \ {r} : d <= Dist(s1[r], s1[j])
NearestReal(r) ==
    CHOOSE d \in {Dist(s1[r], s2[j]) : j \in 1..Len(s2)} :
        \A j \in 1..Len(s2) : d <= Dist(s1[r], s2[j])
Radius(r) ==
    IF NearestOther(r) >= NearestReal(r) THEN NearestOther(r) ELSE NearestReal(r)

\* C9: for samples of equal size, l_i is the number of points of S1 other
\* than x_i within eps_i = max(rho_i, nu_i) of x_i and k_i the number of
\* points of S2 within eps_i, points at distance exactly eps_i included.
C9_NeighbourCounts ==
    (estimate.outcome = "ok" /\ Len(s1) = Len(s2)) =>
        \A r \in 1..Len(s1) :
            /\ estimate.li[r] =
                 Cardinality({j \in (1..Len(s1)) \ {r} : Dist(s1[r], s1[j]) <= Radius(r)})
            /\ estimate.ki[r] =
                 Cardinality({j \in 1..Len(s2) : Dist(s1[r], s2[j]) <= Radius(r)})

C9_Witness ==
    /\ s1 = <<0, 1, 2>> /\ s2 = <<2, 2, 2>>
    /\ estimate.outcome = "ok"
    /\ estimate.li = <<2, 2, 1>>
    /\ estimate.ki = <<3, 3, 3>>

\* C10: for S1 of size n >= 2 and S2 of any size m >= 1 the estimator returns
\* the mean over the n points of S1 of digamma(l_i) - digamma(k_i), plus
\* log(m / (n - 1)).
C10_AnySizes ==
    (estimate # Pending /\ Len(s1) >= 2) =>
        /\ estimate.outcome = "ok"
        /\ Len(estimate.li) = Len(s1)
        /\ Len(estimate.ki) = Len(s1)
        /\ estimate.terms = [r \in 1..Len(s1) |-> <<estimate.li[r], estimate.ki[r]>>]
        /\ estimate.m = Len(s2)
        /\ estimate.n1 = Len(s1) - 1

\* C11: when S1 holds the same point twice (nearest-neighbour distance 0)
\* kld_estimator reports a degeneracy: it raises, or returns a result that
\* is distinguishable from an ordinary estimate.
C11_DuplicateIsDegenerate ==
    (/\ estimate # Pending
     /\ Len(s1) >= 2
     /\ Len(s2) = Len(s1)
     /\ \E a, b \in 1..Len(s1) : a # b /\ s1[a] = s1[b])
        => estimate.outcome # "ok"

\* C14: the critic phase of a training step changes only the critic's
\* parameters and optimizer state; in the generator phase the critic is left
\* as it is, the quantum parameters are changed by the quantum optimizer step
\* only and the linear readout by the linear optimizer step only.
C14_PhaseFrames ==
    [][/\ pc = "critic" =>
            UNCHANGED <<generator_quantum_params, generator_linear_params,
                        generator_quantum_opt_state, generator_linear_opt_state>>
       /\ pc \in {"upd_linear", "upd_quantum"} =>
            UNCHANGED <<critic_params, critic_opt_state>>
       /\ generator_quantum_params' # generator_quantum_params =>
            /\ pc = "upd_quantum"
            /\ generator_quantum_opt_state' = generator_quantum_opt_state + 1
            /\ UNCHANGED <<generator_linear_params, generator_linear_opt_state>>
       /\ generator_linear_params' # generator_linear_params =>
            /\ pc = "upd_linear"
            /\ generator_linear_opt_state' = generator_linear_opt_state + 1
            /\ UNCHANGED <<generator_quantum_params, generator_quantum_opt_state>>
       /\ critic_params' # critic_params => (pc = "critic" /\ c < n_critic)]_vars

C14_Witness ==
    /\ pc = "upd_quantum" /\ i = 1 /\ n_critic = 2
    /\ critic_params = 4
    /\ generator_linear_params = 2
    /\ generator_quantum_params = 1

\* C12: over a whole run no PRNG key seeds two different random draws (latent
\* batches of the critic sub-steps and of the generator phase, gradient-penalty
\* coefficients, each shot-noise draw, each evaluation sample, each dataset
\* permutation, the initial parameters), and a key that has been split is
\* never itself used for a draw.  (The shot-noise draws of a generator phase
\* are made once per (batch item, observable); both generator gradients
\* evaluate them.)
C12_KeysUsedOnce ==
    /\ Cardinality({d.key : d \in draws}) = Cardinality(draws)
    /\ \A d \in draws : d.key \notin splits

C12_Witness ==
    /\ pc = "done" /\ n_iter = 2 /\ n_critic = 2 /\ eval_freq = 1
    /\ Cardinality({d \in draws : d.site = "gp_epsilon"}) = 6
    /\ Cardinality({d \in draws : d.site = "z_evaluate"}) = 3
    /\ Cardinality({d \in draws : d.site = "permutation"}) >= 1

\* C15: a call to train always finishes, after one training step for each
\* loop index 0..n_iter: train has returned or can take a further step, so
\* that no fetch from the data loader is an endless loop (stated for the
\* configurations with batch_size <= dataset_size and n_shots >= 1).
C15_TrainFinishes ==
    (batch_size <= dataset_size /\ n_shots >= 1) =>
        /\ pc = "done" \/ ENABLED Next
        /\ pc = "done" => i = n_iter + 1

\* C16: a configuration whose batch_size exceeds dataset_size, or whose
\* n_shots is not positive, is rejected before any training step: train_step
\* is never entered, no batch is requested from the loader and no parameter
\* group is stepped.
C16_InvalidRejected ==
    (batch_size > dataset_size \/ n_shots <= 0) =>
        /\ pc = "loop" /\ i = 0
        /\ loader = LoaderInit(Split(<<>>, 4))
        /\ fetched = 0
        /\ critic_opt_state = 0
        /\ generator_linear_opt_state = 0
        /\ generator_quantum_opt_state = 0

\* C17: once a loss of a training step is NaN or infinite, training stops at
\* that step: no optimizer step is applied to any parameter group afterwards,
\* no later iteration begins and train does not return a model as if nothing
\* had happened (stated for the configurations with batch_size <= dataset_size
\* and n_shots >= 1).
C17_NonFiniteLossStops ==
    [][(loss_critic = "nonfinite" /\ batch_size <= dataset_size /\ n_shots >= 1) =>
          /\ UNCHANGED paramVars
          /\ i' = i
          /\ pc' # "done"]_vars

\* C18: for every exact value in [-1, 1], every shot count n >= 1 and every
\* value of the Gaussian draw, add_sampling_error returns a value in [-1, 1]:
\* -1 when the sample is n or more, 1 when it is 0 or less.
C18_NoisyInRange ==
    noisy # <<>> =>
        /\ -One <= noisy[1] /\ noisy[1] <= One
        /\ LET p == Grid - exact
               std == ISqrt(shots * p * (2 * Grid - p))
               sample == normal * std + shots * p * Grid
           IN  /\ sample >= shots * One => noisy[1] = -One
               /\ sample <= 0 => noisy[1] = One

C18_Witness ==
    /\ exact = 0 /\ shots = 1 /\ normal = MaxSigma * Grid
    /\ noisy = <<-One>>

\* C(n, j) and the closed form sum over j = 1..loc of C(n, j) * 3^j
RECURSIVE Binomial(_, _)
Binomial(n, j) ==
    IF j = 0 THEN 1 ELSE IF n = 0 THEN 0 ELSE Binomial(n - 1, j - 1) + Binomial(n - 1, j)
RECURSIVE LocalCount(_, _)
LocalCount(n, loc) ==
    IF loc <= 0 THEN 0 ELSE LocalCount(n, loc - 1) + Binomial(n, loc) * Pow(3, loc)

\* C19: for 0 <= k <= nq, get_all_k_local_observables(nq, k) returns Pauli
\* index strings of length nq, with no duplicate, without the all-identity
\* string, each with between 1 and k non-identity sites, and as many of them
\* as the sum over j = 1..k of C(nq, j) * 3^j.
C19_KLocalObservables ==
    (obs_pc = "returned" /\ 0 <= klocal /\ klocal <= nq) =>
        /\ \A r \in 1..Len(valid_tuples) :
              /\ DOMAIN valid_tuples[r] = 1..nq
              /\ \A j \in 1..nq : valid_tuples[r][j] \in 0..3
              /\ \E j \in 1..nq : valid_tuples[r][j] # 0
              /\ Cardinality({j \in 1..nq : valid_tuples[r][j] # 0}) \in 1..klocal
        /\ \A a, b \in 1..Len(valid_tuples) :
              a # b => valid_tuples[a] # valid_tuples[b]
        /\ Len(valid_tuples) = LocalCount(nq, klocal)

C19_Witness ==
    /\ obs_pc = "returned" /\ nq = 3 /\ klocal = 2
    /\ Len(valid_tuples) = 36
    /\ valid_tuples[1] = <<0, 0, 1>>
    /\ valid_tuples[36] = <<3, 3, 0>>

\* C20: a call of the enumerator with k < 0 or k > nq ends in an error: it
\* does not return a set of observables.
C20_BadLocalityRejected ==
    (klocal < 0 \/ klocal > nq) => obs_pc # "returned"

\* C21: for samples of equal size n = m >= 2 every l_i and every k_i that
\* kld_estimator computes is at least 1, also when S1 holds duplicate points
\* or shares points with S2: no summand takes digamma at 0.
C21_CountsAtLeastOne ==
    (estimate # Pending /\ Len(s1) = Len(s2) /\ Len(s1) >= 2) =>
        /\ estimate.outcome = "ok"
        /\ \A r \in 1..Len(s1) :
              /\ estimate.li[r] >= 1
              /\ estimate.ki[r] >= 1
              /\ estimate.terms[r][1] >= 1
              /\ estimate.terms[r][2] >= 1

C21_Witness ==
    /\ s1 = <<1, 1, 2>> /\ s2 = <<1, 0, 0>>
    /\ estimate.outcome = "ok"
    /\ estimate.li = <<1, 1, 2>>
    /\ estimate.ki = <<1, 1, 1>>

\* C22: after the training loop a checkpoint tagged best_i has been written
\* for both parameter groups, whatever n_iter >= 0 and the scores: best_i is
\* 0, a milestone, or an iteration whose improvement branch wrote the
\* snapshot; the final reload returns that snapshot and never fails.
C22_BestCheckpointWritten ==
    /\ pc # "raised"
    /\ i >= 1 =>
          /\ best_i \in DOMAIN files
          /\ files[best_i] = [quantum |-> best_i + 1, linear |-> best_i + 1]
          /\ best_i = 0 \/ best_i \notin Milestones
    /\ pc = "done" =>
          /\ returned = files[best_i]
          /\ returned # NoSnapshot

C22_Witness ==
    /\ pc = "done" /\ n_iter = 3
    /\ best_i = 3 /\ best = Fin(40)
    /\ returned = [quantum |-> 4, linear |-> 4]

\* C23: in one pass of the data loader over N items with batch size B < N
\* exactly floor((N - 1) / B) batches are yielded, each of B items, taken as
\* consecutive slices of one permutation drawn for that pass from a freshly
\* split key; the trailing items of the permutation are not delivered.
C23_BatchesPerPass ==
    /\ [](loader.perm # <<>> =>
            /\ loader.end - loader.start = batch_size
            /\ loader.end < dataset_size
            /\ real_batch = LoaderBatch(loader))
    /\ [][loader' # loader =>
            IF loader.perm # <<>> /\ loader'.perm = loader.perm
            THEN /\ loader'.start = loader.end
                 /\ loader'.key = loader.key
            ELSE /\ loader.perm # <<>> =>
                      loader.end = ((dataset_size - 1) \div batch_size) * batch_size
                 /\ loader'.start = 0
                 /\ loader'.perm = Split(loader.key, 1)
                 /\ loader'.key = Split(loader.key, 0)]_vars

C23_Witness ==
    /\ dataset_size = 4 /\ batch_size = 1 /\ fetched = 4
    /\ loader.perm = <<4, 0, 1>>
    /\ real_batch = [perm |-> <<4, 0, 1>>, start |-> 0, end |-> 1]

====
